---- MODULE Spec2Model ----
(***************************************************************************)
(* SpeechLess: the Editor (settings documents, destination provisioning,   *)
(* the edit loop) of speechless/editor.py and the sentence segmentation of *)
(* speechless/processing/tokenization.py.                                  *)
(***************************************************************************)
EXTENDS Integers, Sequences, FiniteSets, TLC

VARIABLES
  doc,        \* the settings document handed to Editor.from_json
  jpc,        \* position of the configuration pipeline
  settings,   \* Editor.settings of the loaded editor
  jlog,       \* number of warnings from_json logged
  file,       \* the document export_json wrote
  settings2,  \* Editor.settings of the editor reloaded from `file`
  pc,         \* position of Editor.edit
  raised_at,  \* the position at which edit raised, "" if it did not
  source,     \* the streams of the source container
  changes,    \* the timeline changes handed to edit
  srcOpen,    \* the source container is open
  dstOpen,    \* the destination container is open
  ctx_map,    \* stream index -> edit context (with its destination stream)
  log,        \* warnings logged by edit, counted by kind
  streams_ordered, \* stream indices by the DTS of their first packet
  valid_streams,   \* indices of the contexts whose prepare_for_editing returned True
  remaining,  \* stream index -> source packets the demultiplexer has not yielded yet
  routed,     \* stream index -> source packets handed to decode_edit_encode
  cur,        \* stream index of the source packet in hand, -1 if none
  pending,    \* destination packets decode_edit_encode yielded and edit has not muxed
  dest,       \* stream index -> packets multiplexed into the destination, by kind
  flush_i,    \* number of destination streams the flush loop has visited
  transcript, \* the EditTokens handed to sentence_segmentation
  nlp_ends,   \* end_char of every sentence spaCy found
  sentences,  \* the sentences: lists of tokens, each token named by its index
  sent_idx,   \* the sentence the time split looks at
  spc         \* position of sentence_segmentation

jsonVars == <<doc, jpc, settings, jlog, file, settings2>>

editVars == <<pc, raised_at, source, changes, srcOpen, dstOpen, ctx_map, log, streams_ordered,
              valid_streams, remaining, routed, cur, pending, dest, flush_i>>

segVars == <<transcript, nlp_ends, sentences, sent_idx, spc>>

vars == <<doc, jpc, settings, jlog, file, settings2, pc, raised_at, source, changes, srcOpen,
          dstOpen, ctx_map, log, streams_ordered, valid_streams, remaining, routed, cur,
          pending, dest, flush_i, transcript, nlp_ends, sentences, sent_idx, spc>>

(***************************************************************************)
(* Bounds                                                                  *)
(***************************************************************************)
MaxEntries == 2
MaxOptionKeys == 1
MaxPkts == 2
MaxYield == 1
MaxTokens == 3
MaxNlpSents == 2

(***************************************************************************)
(* Identifiers of editor.py                                                *)
(***************************************************************************)
ID_VIDEO_STREAM == "video"
ID_AUDIO_STREAM == "audio"
SUPPORTED_STREAM_TYPES == {ID_VIDEO_STREAM, ID_AUDIO_STREAM}
ID_CODEC == "codec"
ID_CODEC_OPTIONS == "codec-options"
ID_BITRATE == "bitrate"
ID_RESOLUTION == "resolution"
ID_MAX_FPS == "max-fps"
ID_SAMPLE_RATE == "sample-rate"
ID_MONO == "mono"
ID_TIMELINE_CHANGES == "timeline-changes"

OptionKeys ==
  {ID_CODEC, ID_CODEC_OPTIONS, ID_BITRATE, ID_RESOLUTION, ID_MAX_FPS, ID_SAMPLE_RATE, ID_MONO}

(***************************************************************************)
(* Python / JSON values.  Every value is a record of one shape: t is the   *)
(* Python type, n a number, s a string, l a list of numbers; a dict (the   *)
(* codec options) holds one option whose value has type `it`.              *)
(***************************************************************************)
VStr(s) == [t |-> "str", it |-> "", n |-> 0, s |-> s, l |-> <<>>]
VInt(n) == [t |-> "int", it |-> "", n |-> n, s |-> "", l |-> <<>>]
VFloat(n) == [t |-> "float", it |-> "", n |-> n, s |-> "", l |-> <<>>]
VBool(b) == [t |-> "bool", it |-> "", n |-> IF b THEN 1 ELSE 0, s |-> "", l |-> <<>>]
VList(l) == [t |-> "list", it |-> "", n |-> 0, s |-> "", l |-> l]
VDict(v) == [t |-> "dict", it |-> v.t, n |-> v.n, s |-> v.s, l |-> <<>>]

\* str(int) and int(str) on the numbers of the model
StrOfInt(n) ==
  CASE n = -1 -> "-1" [] n = 0 -> "0" [] n = 1 -> "1" [] n = 2 -> "2"
    [] n = 3 -> "3" [] n = 23 -> "23" [] OTHER -> "?"

NumericStrings == {"0", "1", "2", "3", "23"}

IsNumeric(s) == s \in NumericStrings

IntOfStr(s) == CHOOSE n \in {0, 1, 2, 3, 23} : StrOfInt(n) = s

\* str.lower() on the identifiers of the model
Lower(s) == CASE s = "Video" -> "video" [] s = "Audio" -> "audio" [] OTHER -> s

PyStr(v) == IF v.t = "str" THEN v ELSE VStr(StrOfInt(v.n))
PyInt(v) == VInt(v.n)
PyFloat(v) == VFloat(v.n)
PyBool(v) == VBool(v.n # 0)

\* keys of Editor.settings: a stream type (str) or a stream index (int)
TypeKey(s) == [k |-> "str", s |-> s, n |-> 0]
IdxKey(n) == [k |-> "int", s |-> "", n |-> n]

EmptyDict == [x \in {} |-> 0]

DictSet(d, k, v) == [x \in DOMAIN d \cup {k} |-> IF x = k THEN v ELSE d[x]]

DictGet(d, k, default) == IF k \in DOMAIN d THEN d[k] ELSE default

\* dict.update: the entries of `other` replace those of d
DictUpdate(d, other) ==
  [x \in DOMAIN d \cup DOMAIN other |-> IF x \in DOMAIN other THEN other[x] ELSE d[x]]

(***************************************************************************)
(* Editor.__init__                                                         *)
(***************************************************************************)
EditorInit ==
  [id \in {TypeKey(ID_VIDEO_STREAM), TypeKey(ID_AUDIO_STREAM)} |-> EmptyDict]

(***************************************************************************)
(* Editor.from_json                                                        *)
(***************************************************************************)
\* the settings key an identifier of the document selects, if any
Recognized(identifier) ==
  Lower(identifier) \in {ID_VIDEO_STREAM, ID_AUDIO_STREAM} \/ IsNumeric(Lower(identifier))

SettingsKey(identifier) ==
  IF Lower(identifier) \in {ID_VIDEO_STREAM, ID_AUDIO_STREAM}
  THEN TypeKey(Lower(identifier))
  ELSE IdxKey(IntOfStr(Lower(identifier)))

\* the value from_json stores for an option of a recognized identifier
ConvertOption(key, value) ==
  CASE key = ID_CODEC -> PyStr(value)
    [] key = ID_CODEC_OPTIONS ->
         VDict(PyStr([t |-> value.it, it |-> "", n |-> value.n, s |-> value.s, l |-> <<>>]))
    [] key = ID_BITRATE -> PyInt(value)
    [] key = ID_RESOLUTION -> VList(value.l)
    [] key = ID_MAX_FPS -> PyFloat(value)
    [] key = ID_SAMPLE_RATE -> PyInt(value)
    [] key = ID_MONO -> PyBool(value)
    [] OTHER -> value

\* the checks after which from_json raises ValueError
RaisesValueError(key, stored) ==
  CASE key = ID_BITRATE -> stored.n <= 0
    [] key = ID_RESOLUTION -> stored.l[1] * stored.l[2] <= 0
    [] key = ID_MAX_FPS -> stored.n <= 0
    [] key = ID_SAMPLE_RATE -> stored.n <= 0
    [] OTHER -> FALSE

ConvertConfig(config) ==
  [key \in DOMAIN config \cap OptionKeys |-> ConvertOption(key, config[key])]

FromJson(json_settings) ==
  LET ids == {i \in DOMAIN json_settings : Recognized(i)}
      keys == {SettingsKey(i) : i \in ids}
      identOf(k) == CHOOSE i \in ids : SettingsKey(i) = k
      loaded == [k \in DOMAIN EditorInit \cup keys |->
                   IF k \in keys THEN ConvertConfig(json_settings[identOf(k)])
                   ELSE EmptyDict]
      bad == \E i \in ids : \E key \in DOMAIN json_settings[i] \cap OptionKeys :
               RaisesValueError(key, ConvertOption(key, json_settings[i][key]))
      skippedIds == {i \in DOMAIN json_settings :
                       ~Recognized(i) /\ Lower(i) # ID_TIMELINE_CHANGES}
      skippedKeys == UNION {{<<i, key>> : key \in DOMAIN json_settings[i] \ OptionKeys} : i \in ids}
  IN [status |-> IF bad THEN "ValueError" ELSE "ok",
      settings |-> loaded,
      warnings |-> Cardinality(skippedIds) + Cardinality(skippedKeys)]

(***************************************************************************)
(* Editor.export_json: json.dump turns every int key into its decimal      *)
(* string and keeps the values.                                            *)
(***************************************************************************)
JsonKey(k) == IF k.k = "int" THEN StrOfInt(k.n) ELSE k.s

SettingsOfJsonKey(s, name) == s[CHOOSE k \in DOMAIN s : JsonKey(k) = name]

\* only the settings of the stream types are written
ExportJsonTypesOnly(s, withChanges, chs) ==
  [name \in {JsonKey(k) : k \in {x \in DOMAIN s : x.k = "str"}}
             \cup (IF withChanges THEN {ID_TIMELINE_CHANGES} ELSE {}) |->
     IF name = ID_TIMELINE_CHANGES THEN chs ELSE s[TypeKey(name)]]

ExportJson(s, withChanges, chs) ==
  LET names == {JsonKey(k) : k \in DOMAIN s}
  IN [name \in names \cup (IF withChanges THEN {ID_TIMELINE_CHANGES} ELSE {}) |->
        IF name \in names THEN SettingsOfJsonKey(s, name) ELSE chs]

(***************************************************************************)
(* Editor.prepare_destination                                              *)
(***************************************************************************)
VNone == [t |-> "none", it |-> "", n |-> 0, s |-> "", l |-> <<>>]

\* Fraction(x)
PyFraction(v) == [t |-> "Fraction", it |-> "", n |-> v.n, s |-> "", l |-> <<>>]

\* what the source container reports for a stream (codec_context.name, codec_context.options,
\* bit_rate, [width, height], guessed_rate, sample_rate, channels)
SrcStream ==
  [codec |-> VStr("mpeg4"), options |-> VDict(VStr("src")), bit_rate |-> VInt(3),
   size |-> VList(<<3, 3>>), guessed_rate |-> VInt(3), sample_rate |-> VInt(3), channels |-> 2]

\* positions (1-based) of the streams a destination stream is made for; the stream at
\* position i has index i - 1
Eligible(src) ==
  {i \in 1..Len(src) : src[i].type \in SUPPORTED_STREAM_TYPES /\ src[i].decoder}

\* stream-specific settings take precedence over type-specific settings
MergedSettingsTypeWins(s, stream_type, index) ==
  DictUpdate(DictGet(s, IdxKey(index), EmptyDict), DictGet(s, TypeKey(stream_type), EmptyDict))

MergedSettings(s, stream_type, index) ==
  DictUpdate(DictGet(s, TypeKey(stream_type), EmptyDict), DictGet(s, IdxKey(index), EmptyDict))

\* the destination stream and the edit context made for one source stream; fps is the
\* max_fps resolved from the settings, max_fps the attribute of the video context
NewContext(stream, index, s) ==
  LET st == MergedSettings(s, stream.type, index)
  IN IF stream.type = ID_VIDEO_STREAM
     THEN [type |-> ID_VIDEO_STREAM,
           codec |-> DictGet(st, ID_CODEC, SrcStream.codec),
           codec_options |-> DictGet(st, ID_CODEC_OPTIONS, SrcStream.options),
           bit_rate |-> DictGet(st, ID_BITRATE, SrcStream.bit_rate),
           size |-> DictGet(st, ID_RESOLUTION, SrcStream.size),
           fps |-> PyFraction(DictGet(st, ID_MAX_FPS, SrcStream.guessed_rate)),
           max_fps |-> PyFraction(DictGet(st, ID_MAX_FPS, SrcStream.guessed_rate)),
           rate |-> VNone,
           channels |-> 0,
           is_done |-> FALSE]
     ELSE [type |-> ID_AUDIO_STREAM,
           codec |-> DictGet(st, ID_CODEC, SrcStream.codec),
           codec_options |-> DictGet(st, ID_CODEC_OPTIONS, SrcStream.options),
           bit_rate |-> DictGet(st, ID_BITRATE, SrcStream.bit_rate),
           size |-> VNone,
           fps |-> VNone,
           max_fps |-> VNone,
           rate |-> DictGet(st, ID_SAMPLE_RATE, SrcStream.sample_rate),
           channels |-> IF DictGet(st, ID_MONO, VBool(FALSE)).n # 0 THEN 1 ELSE SrcStream.channels,
           is_done |-> FALSE]

\* a video context whose destination time base is too coarse for its max_fps
LowTimeBase(ctx, possible_fps) == ctx.type = ID_VIDEO_STREAM /\ possible_fps < ctx.max_fps.n

LimitFps(ctx, possible_fps) ==
  IF LowTimeBase(ctx, possible_fps)
  THEN [ctx EXCEPT !.max_fps = PyFraction(VInt(possible_fps))]
  ELSE ctx

\* 1 / dst_stream.time_base once the destination has started encoding: the 60000 the code
\* asks for, or what a container with a coarse time base grants
PossibleFps == {2, 60000}

PrepareDestination(src, s, possible_fps) ==
  LET made == [idx \in {i - 1 : i \in Eligible(src)} |-> NewContext(src[idx + 1], idx, s)]
  IN [ctx_map |-> [idx \in DOMAIN made |-> LimitFps(made[idx], possible_fps)],
      skipped |-> Len(src) - Cardinality(Eligible(src)),
      low_time_base |-> Cardinality({idx \in DOMAIN made : LowTimeBase(made[idx], possible_fps)})]

(***************************************************************************)
(* The edit contexts (speechless/edit_context.py)                          *)
(***************************************************************************)
\* prepare_for_editing: False when no change with a multiplier other than 1 applies to the
\* stream; whether a change overlaps the stream's time range is left open
PrepareForEditing(ctx, chs) ==
  IF \E i \in 1..Len(chs) : chs[i][3] # 1 THEN BOOLEAN ELSE {FALSE}

\* is_done after decode_edit_encode: True once the source is exhausted, possibly sooner
DoneAfter(left) == IF left = 0 THEN {TRUE} ELSE BOOLEAN

(***************************************************************************)
(* Editor.edit                                                             *)
(***************************************************************************)
\* line 80: len(valid_streams) > 0
EditBranch(vs) == Cardinality(vs) > 0

\* line 90: all(ctx.is_done for ctx in ctx_map.values())
AllDone(cm) == \A i \in DOMAIN cm : cm[i].is_done

LogNothing(l) == l

\* line 97: the warning of an empty recording
LogEmptyRecording(l) == [l EXCEPT !.empty_recording = @ + 1]

CloseOrderSourceFirst == <<"source", "dest">>

\* lines 100-101
CloseOrder == <<"dest", "source">>

\* streams by (first DTS, position in ctx_map): sorted() is stable
OrderByDts(dts) ==
  LET D == DOMAIN dts
  IN CHOOSE sq \in [1..Cardinality(D) -> D] :
       \A i, j \in 1..Cardinality(D) :
         i < j => (dts[sq[i]] < dts[sq[j]] \/ (dts[sq[i]] = dts[sq[j]] /\ sq[i] < sq[j]))

\* dest.streams: the destination streams in the order they were added
DestStreams(cm) == OrderByDts([i \in DOMAIN cm |-> 0])

NoLog == [skipped |-> 0, low_time_base |-> 0, empty_recording |-> 0]

Warnings(l) == l.skipped + l.low_time_base + l.empty_recording

(***************************************************************************)
(* tokenization.py: texts are sequences of characters                      *)
(***************************************************************************)
TOKEN_SEPARATOR == <<" ">>
SENTENCE_SEPARATOR == <<".">>
SENTENCE_SEPARATOR_ALTERNATIVES == << <<",">> >>

\* line 117: the longest pause, in seconds, inside a sentence
MaxPause == 3

IsSpace(c) == c = " "

RECURSIVE FirstIndex(_, _, _)
\* the first position >= i of character c in t, 0 if there is none
FirstIndex(t, c, i) ==
  IF i > Len(t) THEN 0 ELSE IF t[i] = c THEN i ELSE FirstIndex(t, c, i + 1)

RECURSIVE TextSub(_)
\* TEXT_SUB_PATTERNS.sub('', text): text in [] and text in () is removed
TextSub(t) ==
  IF t = <<>> THEN <<>>
  ELSE LET close == IF t[1] = "[" THEN FirstIndex(t, "]", 2)
                    ELSE IF t[1] = "(" THEN FirstIndex(t, ")", 2) ELSE 0
       IN IF close > 0
          THEN TextSub(SubSeq(t, close + 1, Len(t)))
          ELSE <<t[1]>> \o TextSub(Tail(t))

RECURSIVE LStrip(_)
LStrip(t) == IF t # <<>> /\ IsSpace(t[1]) THEN LStrip(Tail(t)) ELSE t

RECURSIVE RStrip(_)
RStrip(t) ==
  IF t # <<>> /\ IsSpace(t[Len(t)]) THEN RStrip(SubSeq(t, 1, Len(t) - 1)) ELSE t

RECURSIVE Collapse(_)
\* whitespace that follows whitespace is removed
Collapse(t) ==
  IF Len(t) < 2 THEN t
  ELSE IF IsSpace(t[1]) /\ IsSpace(t[2]) THEN Collapse(Tail(t))
  ELSE <<t[1]>> \o Collapse(Tail(t))

\* WHITESPACE_SUB_PATTERNS.sub('', text)
WhitespaceSub(t) == Collapse(RStrip(LStrip(t)))

\* EditToken.__init__
EditToken(text, start_time, end_time) ==
  [text |-> WhitespaceSub(TextSub(text)), start_time |-> start_time, end_time |-> end_time,
   start_pos |-> -1, index |-> -1]

EndsWith(t, suffix) ==
  Len(t) >= Len(suffix) /\ SubSeq(t, Len(t) - Len(suffix) + 1, Len(t)) = suffix

DropLast(t, n) == SubSeq(t, 1, Len(t) - n)

RECURSIVE StartPos(_, _)
\* lines 75-78, once every token but the last has its separator
StartPos(tokens, k) ==
  IF k = 1 THEN 0 ELSE StartPos(tokens, k - 1) + Len(tokens[k - 1].text)

\* lines 74-82: separators, positions and indices
Separated(tokens) ==
  LET sep == [k \in 1..Len(tokens) |->
                IF k < Len(tokens)
                THEN [tokens[k] EXCEPT !.text = @ \o TOKEN_SEPARATOR]
                ELSE tokens[k]]
  IN [k \in 1..Len(tokens) |-> [sep[k] EXCEPT !.start_pos = StartPos(sep, k), !.index = k - 1]]

RECURSIVE RawTranscript(_, _)
\* line 84: ''.join(token.text), from token k on
RawTranscript(tokens, k) ==
  IF k > Len(tokens) THEN <<>> ELSE tokens[k].text \o RawTranscript(tokens, k + 1)

\* spaCy (lines 88-89): some split of the text into sentences, named by their end_char.
\* The last sentence ends after the last character that is no whitespace, or later.
NlpSents(raw) ==
  IF raw = <<>> THEN {<<>>}
  ELSE LET lo == IF RStrip(raw) = <<>> THEN 1 ELSE Len(RStrip(raw))
       IN {ends \in UNION {[1..n -> 1..Len(raw)] : n \in 1..MaxNlpSents} :
             /\ ends[Len(ends)] >= lo
             /\ \A i \in 1..(Len(ends) - 1) : ends[i] < ends[i + 1]}

RECURSIVE TakeWhileBefore(_, _, _)
\* lines 96-105: how many tokens from token_idx (0-based) on start before end_char
TakeWhileBefore(tokens, token_idx, end_char) ==
  IF token_idx < Len(tokens) /\ tokens[token_idx + 1].start_pos < end_char
  THEN 1 + TakeWhileBefore(tokens, token_idx + 1, end_char)
  ELSE 0

RECURSIVE AssignTokens(_, _, _, _)
\* lines 93-108: the tokens of every spaCy sentence; a sentence left empty is dropped
AssignTokens(tokens, ends, k, token_idx) ==
  IF k > Len(ends) THEN <<>>
  ELSE LET n == TakeWhileBefore(tokens, token_idx, ends[k])
           sent == [j \in 1..n |-> token_idx + j - 1]
       IN (IF n = 0 THEN <<>> ELSE <<sent>>) \o AssignTokens(tokens, ends, k + 1, token_idx + n)

\* line 116-117: the first pair of neighbours of a sentence parted by a long pause
\* (the position of its first token in the sentence, 0-based), -1 if there is none
FirstPause(tokens, sent) ==
  LET hits == {i \in 1..(Len(sent) - 1) :
                 tokens[sent[i + 1] + 1].start_time - tokens[sent[i] + 1].end_time > MaxPause}
  IN IF hits = {} THEN -1 ELSE (CHOOSE i \in hits : \A j \in hits : i <= j) - 1

NextSentIdxSkipTail(idx, split) == IF split THEN idx + 2 ELSE idx + 1

\* line 123
NextSentIdx(idx, split) == idx + 1

\* lines 128-143: the text of the last token of a sentence that another follows, and
\* the change of pos_diff
SeparatorEdit(text) ==
  LET alt == SENTENCE_SEPARATOR_ALTERNATIVES[1] \o TOKEN_SEPARATOR
      t1 == IF EndsWith(text, alt) THEN DropLast(text, Len(alt)) \o SENTENCE_SEPARATOR ELSE text
      d1 == IF EndsWith(text, alt) THEN Len(SENTENCE_SEPARATOR) - Len(alt) ELSE 0
  IN IF EndsWith(text, SENTENCE_SEPARATOR) THEN [text |-> text, diff |-> 0, moved |-> FALSE]
     ELSE IF EndsWith(t1, SENTENCE_SEPARATOR \o TOKEN_SEPARATOR)
     THEN [text |-> DropLast(t1, Len(TOKEN_SEPARATOR)), diff |-> d1 - Len(TOKEN_SEPARATOR),
           moved |-> TRUE]
     ELSE IF EndsWith(t1, TOKEN_SEPARATOR)
     THEN [text |-> DropLast(t1, Len(TOKEN_SEPARATOR)) \o SENTENCE_SEPARATOR,
           diff |-> d1 + Len(SENTENCE_SEPARATOR) - Len(TOKEN_SEPARATOR), moved |-> TRUE]
     ELSE [text |-> t1, diff |-> d1, moved |-> TRUE]

InSeq(x, sq) == \E i \in 1..Len(sq) : sq[i] = x

RECURSIVE AddSeparators(_, _, _, _)
\* lines 125-145, from the k-th sentence on
AddSeparators(tokens, sents, k, pos_diff) ==
  IF k >= Len(sents) THEN tokens
  ELSE LET last == sents[k][Len(sents[k])] + 1
           e == SeparatorEdit(tokens[last].text)
           diff == pos_diff + e.diff
           edited == [j \in 1..Len(tokens) |->
                        IF j = last THEN [tokens[j] EXCEPT !.text = e.text]
                        ELSE IF e.moved /\ InSeq(j - 1, sents[k + 1])
                        THEN [tokens[j] EXCEPT !.start_pos = @ + diff]
                        ELSE tokens[j]]
       IN AddSeparators(edited, sents, k + 1, diff)

(***************************************************************************)
(* The inputs of the model                                                 *)
(***************************************************************************)
DocIds == {"Video", "audio", "0", "1", "subs"}

NumVals == {-1, 0, 1, 2}

DocValues(key) ==
  CASE key = ID_CODEC -> {VStr("h264"), VStr("vp9")}
    [] key = ID_CODEC_OPTIONS -> {VDict(VInt(23)), VDict(VStr("fast"))}
    [] key = ID_BITRATE -> {VInt(n) : n \in NumVals}
    [] key = ID_RESOLUTION -> {VList(<<w, h>>) : w \in {-1, 0, 1}, h \in {-1, 0, 1}} \cup {VList(<<2, 2>>)}
    [] key = ID_MAX_FPS -> {VInt(n) : n \in NumVals}
    [] key = ID_SAMPLE_RATE -> {VInt(n) : n \in NumVals}
    [] key = ID_MONO -> {VBool(TRUE), VBool(FALSE)}
    [] OTHER -> {VInt(1)}

DocKeys(id) == IF id = "subs" THEN {ID_BITRATE} ELSE OptionKeys \cup {"preset"}

NumEntries(d) == Cardinality(UNION {{<<i, k>> : k \in DOMAIN d[i]} : i \in DOMAIN d})

KeysUsed(d) == UNION {DOMAIN d[i] : i \in DOMAIN d}

\* timeline changes [beg, end, multi]: none, a cut, a pass-through
ChangeLists == {<<>>, << <<0, 1, 0>> >>, << <<0, 1, 1>> >>}

StreamKinds ==
  {[type |-> ID_VIDEO_STREAM, decoder |-> TRUE], [type |-> ID_AUDIO_STREAM, decoder |-> TRUE],
   [type |-> "subtitle", decoder |-> TRUE], [type |-> ID_VIDEO_STREAM, decoder |-> FALSE]}

\* source containers of two streams
Sources == {<<a, b>> : a \in StreamKinds, b \in StreamKinds}

\* the texts of transcript tokens: words, a word in brackets, padded words
RawTexts == {<<"a">>, <<"a", ",">>, <<"a", ".">>, <<"[", "a", "]">>, <<" ", "a", " ", " ", "b">>}

\* seconds between the end of a token and the start of the next
Pauses == {3, 4}

RECURSIVE TokenStart(_, _)
TokenStart(pauses, k) == IF k = 1 THEN pauses[1] ELSE TokenStart(pauses, k - 1) + 1 + pauses[k]

Transcripts ==
  UNION {{[k \in 1..n |-> EditToken(texts[k], TokenStart(pauses, k), TokenStart(pauses, k) + 1)] :
            texts \in [1..n -> RawTexts], pauses \in [1..n -> Pauses]} : n \in 1..MaxTokens}

(***************************************************************************)
(* Configuration pipeline: a document is written, loaded with from_json,   *)
(* exported with export_json and loaded again.                             *)
(***************************************************************************)
InitJsonVars ==
  /\ doc = EmptyDict
  /\ settings = EditorInit
  /\ jlog = 0
  /\ file = EmptyDict
  /\ settings2 = EditorInit

InitEditVars ==
  /\ pc = "start"
  /\ raised_at = ""
  /\ source = <<>>
  /\ changes = <<>>
  /\ srcOpen = FALSE
  /\ dstOpen = FALSE
  /\ ctx_map = EmptyDict
  /\ log = NoLog
  /\ streams_ordered = <<>>
  /\ valid_streams = {}
  /\ remaining = EmptyDict
  /\ routed = EmptyDict
  /\ cur = -1
  /\ pending = 0
  /\ dest = EmptyDict
  /\ flush_i = 0

AddEntry ==
  /\ jpc = "build"
  /\ NumEntries(doc) < MaxEntries
  /\ \E id \in DocIds : \E key \in DocKeys(id) :
       /\ key \notin DOMAIN DictGet(doc, id, EmptyDict)
       /\ Cardinality(KeysUsed(doc) \cup {key}) <= MaxOptionKeys
       /\ \E value \in DocValues(key) :
            doc' = DictSet(doc, id, DictSet(DictGet(doc, id, EmptyDict), key, value))
  /\ UNCHANGED <<jpc, settings, jlog, file, settings2>>
  /\ UNCHANGED editVars
  /\ UNCHANGED segVars

LoadJson ==
  /\ jpc = "build"
  /\ LET r == FromJson(doc)
     IN /\ jpc' = IF r.status = "ok" THEN "loaded" ELSE "raised"
        /\ settings' = IF r.status = "ok" THEN r.settings ELSE settings
        /\ jlog' = r.warnings
  /\ UNCHANGED <<doc, file, settings2>>
  /\ UNCHANGED editVars
  /\ UNCHANGED segVars

DoExportJson ==
  /\ jpc = "loaded"
  /\ pc = "start"
  /\ \E withChanges \in BOOLEAN :
       \E chs \in (IF withChanges THEN ChangeLists ELSE {<<>>}) :
         file' = ExportJson(settings, withChanges, chs)
  /\ jpc' = "exported"
  /\ UNCHANGED <<doc, settings, jlog, settings2>>
  /\ UNCHANGED editVars
  /\ UNCHANGED segVars

ReloadJson ==
  /\ jpc = "exported"
  /\ LET r == FromJson(file)
     IN /\ jpc' = IF r.status = "ok" THEN "reloaded" ELSE "reload_raised"
        /\ settings2' = r.settings
        /\ jlog' = r.warnings
  /\ UNCHANGED <<doc, settings, file>>
  /\ UNCHANGED editVars
  /\ UNCHANGED segVars

(***************************************************************************)
(* Editor.edit, one action per step                                        *)
(***************************************************************************)
\* line 62: av.open(src_path)
OpenSource ==
  /\ jpc = "loaded"
  /\ pc = "start"
  /\ \E src \in Sources : source' = src
  /\ srcOpen' = TRUE
  /\ pc' = "open_dst"
  /\ UNCHANGED <<raised_at, changes, dstOpen, ctx_map, log, streams_ordered, valid_streams,
                 remaining, routed, cur, pending, dest, flush_i>>
  /\ UNCHANGED jsonVars
  /\ UNCHANGED segVars

\* line 115: av.open(dst_path, mode='w')
OpenDest ==
  /\ pc = "open_dst"
  /\ dstOpen' = TRUE
  /\ pc' = "provision"
  /\ UNCHANGED <<raised_at, source, changes, srcOpen, ctx_map, log, streams_ordered,
                 valid_streams, remaining, routed, cur, pending, dest, flush_i>>
  /\ UNCHANGED jsonVars
  /\ UNCHANGED segVars

\* lines 116-173: the rest of prepare_destination
Provision ==
  /\ pc = "provision"
  /\ \E possible_fps \in PossibleFps :
       LET r == PrepareDestination(source, settings, possible_fps)
       IN /\ ctx_map' = r.ctx_map
          /\ log' = [log EXCEPT !.skipped = @ + r.skipped, !.low_time_base = @ + r.low_time_base]
          /\ remaining' = [i \in DOMAIN r.ctx_map |-> MaxPkts]
          /\ routed' = [i \in DOMAIN r.ctx_map |-> 0]
          /\ dest' = [i \in DOMAIN r.ctx_map |-> [data |-> 0, flush |-> 0]]
  /\ pc' = "probe"
  /\ UNCHANGED <<raised_at, source, changes, srcOpen, dstOpen, streams_ordered, valid_streams,
                 cur, pending, flush_i>>
  /\ UNCHANGED jsonVars
  /\ UNCHANGED segVars

\* lines 66-71: the DTS of every stream's first packet, and the streams in that order
Probe ==
  /\ pc = "probe"
  /\ \E dts \in [DOMAIN ctx_map -> {0, 1}] : streams_ordered' = OrderByDts(dts)
  /\ pc' = "prime"
  /\ UNCHANGED <<raised_at, source, changes, srcOpen, dstOpen, ctx_map, log, valid_streams,
                 remaining, routed, cur, pending, dest, flush_i>>
  /\ UNCHANGED jsonVars
  /\ UNCHANGED segVars

\* lines 74-77: prepare_for_editing on every context
Prime ==
  /\ pc = "prime"
  /\ \E chs \in ChangeLists : \E vs \in SUBSET DOMAIN ctx_map :
       /\ \A i \in DOMAIN ctx_map : (i \in vs) \in PrepareForEditing(ctx_map[i], chs)
       /\ changes' = chs
       /\ valid_streams' = vs
  /\ pc' = "branch"
  /\ UNCHANGED <<raised_at, source, srcOpen, dstOpen, ctx_map, log, streams_ordered, remaining,
                 routed, cur, pending, dest, flush_i>>
  /\ UNCHANGED jsonVars
  /\ UNCHANGED segVars

\* lines 80-82 and 96-97
Branch ==
  /\ pc = "branch"
  /\ IF EditBranch(valid_streams)
     THEN pc' = "loop" /\ log' = log
     ELSE pc' = "finish" /\ log' = LogEmptyRecording(log)
  /\ UNCHANGED <<raised_at, source, changes, srcOpen, dstOpen, ctx_map, streams_ordered,
                 valid_streams, remaining, routed, cur, pending, dest, flush_i>>
  /\ UNCHANGED jsonVars
  /\ UNCHANGED segVars

\* line 84: the next packet of source.demux(valid streams), or the end of the loop
Demux ==
  /\ pc = "loop"
  /\ LET avail == {i \in valid_streams : remaining[i] > 0}
     IN IF avail = {}
        THEN pc' = "flush" /\ UNCHANGED <<remaining, cur>>
        ELSE \E i \in avail :
               /\ remaining' = [remaining EXCEPT ![i] = @ - 1]
               /\ cur' = i
               /\ pc' = "route"
  /\ UNCHANGED <<raised_at, source, changes, srcOpen, dstOpen, ctx_map, log, streams_ordered,
                 valid_streams, routed, pending, dest, flush_i>>
  /\ UNCHANGED jsonVars
  /\ UNCHANGED segVars

\* lines 85-88: skip the packet of a context that is done, else decode_edit_encode
Route ==
  /\ pc = "route"
  /\ IF ctx_map[cur].is_done
     THEN pc' = "loop" /\ cur' = -1 /\ UNCHANGED <<ctx_map, routed, pending>>
     ELSE \E k \in 0..MaxYield : \E d \in DoneAfter(remaining[cur]) :
            /\ ctx_map' = [ctx_map EXCEPT ![cur].is_done = d]
            /\ routed' = [routed EXCEPT ![cur] = @ + 1]
            /\ pending' = k
            /\ pc' = IF k = 0 THEN "check" ELSE "mux"
            /\ cur' = cur
  /\ UNCHANGED <<raised_at, source, changes, srcOpen, dstOpen, log, streams_ordered,
                 valid_streams, remaining, dest, flush_i>>
  /\ UNCHANGED jsonVars
  /\ UNCHANGED segVars

\* line 89: dest.mux(dst_packet)
Mux ==
  /\ pc = "mux"
  /\ dest' = [dest EXCEPT ![cur].data = @ + 1]
  /\ pending' = pending - 1
  /\ pc' = IF pending = 1 THEN "check" ELSE "mux"
  /\ UNCHANGED <<raised_at, source, changes, srcOpen, dstOpen, ctx_map, log, streams_ordered,
                 valid_streams, remaining, routed, cur, flush_i>>
  /\ UNCHANGED jsonVars
  /\ UNCHANGED segVars

\* lines 90-91: early stop when all are done
Check ==
  /\ pc = "check"
  /\ pc' = IF AllDone(ctx_map) THEN "flush" ELSE "loop"
  /\ cur' = -1
  /\ UNCHANGED <<raised_at, source, changes, srcOpen, dstOpen, ctx_map, log, streams_ordered,
                 valid_streams, remaining, routed, pending, dest, flush_i>>
  /\ UNCHANGED jsonVars
  /\ UNCHANGED segVars

\* lines 94-95: dest.mux(dst_stream.encode()) for every destination stream
Flush ==
  /\ pc = "flush"
  /\ IF flush_i < Len(DestStreams(ctx_map))
     THEN /\ dest' = [dest EXCEPT ![DestStreams(ctx_map)[flush_i + 1]].flush = @ + 1]
          /\ flush_i' = flush_i + 1
          /\ pc' = pc
     ELSE pc' = "finish" /\ UNCHANGED <<dest, flush_i>>
  /\ UNCHANGED <<raised_at, source, changes, srcOpen, dstOpen, ctx_map, log, streams_ordered,
                 valid_streams, remaining, routed, cur, pending>>
  /\ UNCHANGED jsonVars
  /\ UNCHANGED segVars

CloseContainer(which) ==
  IF which = "dest"
  THEN dstOpen' = FALSE /\ srcOpen' = srcOpen
  ELSE srcOpen' = FALSE /\ dstOpen' = dstOpen

\* line 100
CloseFirst ==
  /\ pc = "finish"
  /\ CloseContainer(CloseOrder[1])
  /\ pc' = "close_second"
  /\ UNCHANGED <<raised_at, source, changes, ctx_map, log, streams_ordered, valid_streams,
                 remaining, routed, cur, pending, dest, flush_i>>
  /\ UNCHANGED jsonVars
  /\ UNCHANGED segVars

\* line 101
CloseSecond ==
  /\ pc = "close_second"
  /\ CloseContainer(CloseOrder[2])
  /\ pc' = "done"
  /\ UNCHANGED <<raised_at, source, changes, ctx_map, log, streams_ordered, valid_streams,
                 remaining, routed, cur, pending, dest, flush_i>>
  /\ UNCHANGED jsonVars
  /\ UNCHANGED segVars

\* the steps of edit that read or write a container: each may fail with an I/O error
IOSteps ==
  {"start", "open_dst", "provision", "probe", "prime", "loop", "route", "mux", "flush",
   "finish", "close_second"}

\* an I/O error: edit has no handler, the exception leaves it at once
Raise ==
  /\ jpc = "loaded"
  /\ pc \in IOSteps \/ (pc = "branch" /\ EditBranch(valid_streams))
  /\ pc' = "raised"
  /\ raised_at' = pc
  /\ UNCHANGED <<source, changes, srcOpen, dstOpen, ctx_map, log, streams_ordered,
                 valid_streams, remaining, routed, cur, pending, dest, flush_i>>
  /\ UNCHANGED jsonVars
  /\ UNCHANGED segVars

(***************************************************************************)
(* sentence_segmentation                                                   *)
(***************************************************************************)
InitSegVars ==
  /\ transcript = <<>>
  /\ nlp_ends = <<>>
  /\ sentences = <<>>
  /\ sent_idx = 0
  /\ spc = "idle"

\* lines 74-108: separators, spaCy, the tokens of every sentence
SegmentNlp ==
  /\ spc = "start"
  /\ LET tokens == Separated(transcript)
         raw == RawTranscript(tokens, 1)
     IN /\ transcript' = tokens
        /\ \E ends \in NlpSents(raw) :
             /\ nlp_ends' = ends
             /\ IF ends = <<>>
                THEN spc' = "raised" /\ sentences' = <<>>
                ELSE spc' = "split" /\ sentences' = AssignTokens(tokens, ends, 1, 0)
  /\ sent_idx' = 0
  /\ UNCHANGED jsonVars
  /\ UNCHANGED editVars

\* lines 112-123: one turn of the loop that splits at a long pause
SplitStep ==
  /\ spc = "split"
  /\ sent_idx < Len(sentences)
  /\ LET sent == sentences[sent_idx + 1]
         prev_token_idx == FirstPause(transcript, sent)
         token_idx == prev_token_idx + 1
     IN IF prev_token_idx >= 0
        THEN /\ sentences' = SubSeq(sentences, 1, sent_idx)
                               \o <<SubSeq(sent, 1, token_idx), SubSeq(sent, token_idx + 1, Len(sent))>>
                               \o SubSeq(sentences, sent_idx + 2, Len(sentences))
             /\ sent_idx' = NextSentIdx(sent_idx, TRUE)
        ELSE /\ sentences' = sentences
             /\ sent_idx' = NextSentIdx(sent_idx, FALSE)
  /\ UNCHANGED <<transcript, nlp_ends, spc>>
  /\ UNCHANGED jsonVars
  /\ UNCHANGED editVars

\* lines 125-147: the sentence separators, and the return
Separate ==
  /\ spc = "split"
  /\ sent_idx >= Len(sentences)
  /\ transcript' = AddSeparators(transcript, sentences, 1, 0)
  /\ spc' = "done"
  /\ UNCHANGED <<nlp_ends, sentences, sent_idx>>
  /\ UNCHANGED jsonVars
  /\ UNCHANGED editVars

(***************************************************************************)
(* Specifications                                                          *)
(***************************************************************************)
\* settings documents: written, loaded, exported, loaded again
InitJson == jpc = "build" /\ InitJsonVars /\ InitEditVars /\ InitSegVars

NextJson == AddEntry \/ LoadJson \/ DoExportJson \/ ReloadJson

SpecJson == InitJson /\ [][NextJson]_vars

\* a document is loaded and the editor provisions a destination for a source
NextProv == AddEntry \/ LoadJson \/ OpenSource \/ OpenDest \/ Provision

SpecProv == InitJson /\ [][NextProv]_vars

\* edit, by an editor with the settings of Editor()
InitEdit == jpc = "loaded" /\ InitJsonVars /\ InitEditVars /\ InitSegVars

NextEdit ==
  \/ OpenSource \/ OpenDest \/ Provision \/ Probe \/ Prime \/ Branch \/ Demux \/ Route
  \/ Mux \/ Check \/ Flush \/ CloseFirst \/ CloseSecond \/ Raise

SpecEdit == InitEdit /\ [][NextEdit]_vars

\* sentence_segmentation on a transcript
InitSeg ==
  /\ jpc = "build" /\ InitJsonVars /\ InitEditVars
  /\ transcript \in Transcripts
  /\ nlp_ends = <<>>
  /\ sentences = <<>>
  /\ sent_idx = 0
  /\ spc = "start"

NextSeg == SegmentNlp \/ SplitStep \/ Separate

SpecSeg == InitSeg /\ [][NextSeg]_vars

(***************************************************************************)
(* Claims                                                                  *)
(***************************************************************************)
ActiveLeft == \E i \in valid_streams : ~ctx_map[i].is_done

(* C1: the demultiplex loop stops as soon as every active context is done: a source
   packet is taken from the demultiplexer and routed only while some active context
   is not done yet, whether or not every provisioned context is active *)
C1_EarlyStop == pc = "route" => ActiveLeft

NoActiveStream == valid_streams = {} /\ pc \in {"finish", "close_second", "done"}

NothingDecoded == \A i \in DOMAIN routed : routed[i] = 0

NothingMuxed == \A i \in DOMAIN dest : dest[i].data = 0 /\ dest[i].flush = 0

BothClosed == ~srcOpen /\ ~dstOpen

(* C2 as stated: with no active context edit raises no error, logs exactly one warning,
   never calls decode_edit_encode, multiplexes neither data nor flush packets and still
   closes both containers *)
C2_OneWarning ==
  /\ NoActiveStream =>
       Warnings(log) = 1 /\ NothingDecoded /\ NothingMuxed /\ (pc = "done" => BothClosed)
  /\ (pc = "raised" /\ valid_streams = {}) => raised_at # "branch"

(* C2 amended: with no active context edit raises no error, logs the warning of an empty
   recording exactly once (prepare_destination may have logged warnings of its own),
   never calls decode_edit_encode, multiplexes neither data nor flush packets and still
   closes both containers *)
C2_EmptyRecording ==
  /\ NoActiveStream =>
       /\ log.empty_recording = 1
       /\ NothingDecoded /\ NothingMuxed /\ (pc = "done" => BothClosed)
  /\ (pc = "raised" /\ valid_streams = {}) => raised_at # "branch"

C2_Witness ==
  /\ pc = "done" /\ valid_streams = {} /\ DOMAIN ctx_map # {}
  /\ changes # <<>> /\ log.skipped > 0

(* C3: with an empty interval list every prepare_for_editing returns false and
   every packet of every provisioned source stream still reaches the destination *)
C3_PassThrough ==
  (pc = "done" /\ changes = <<>>) =>
    /\ valid_streams = {}
    /\ \A i \in DOMAIN ctx_map : remaining[i] = 0 /\ routed[i] = MaxPkts

NumericKeys == {ID_BITRATE, ID_MAX_FPS, ID_SAMPLE_RATE}

\* a recognized identifier of the document holds a non-positive number
NonPositive(d) ==
  \E i \in DOMAIN d : Recognized(i) /\
    \/ \E key \in DOMAIN d[i] \cap NumericKeys : d[i][key].n <= 0
    \/ ID_RESOLUTION \in DOMAIN d[i]
         /\ \E k \in 1..Len(d[i][ID_RESOLUTION].l) : d[i][ID_RESOLUTION].l[k] <= 0

(* C4: from_json raises a validation error, before any container is opened, exactly for
   the documents in which a bitrate, a max-fps, a sample-rate or a dimension of a
   resolution is not positive *)
C4_Validation ==
  jpc \in {"loaded", "raised"} =>
    /\ (jpc = "raised") <=> NonPositive(doc)
    /\ jpc = "raised" => (pc = "start" /\ BothClosed)

\* the value of an option for the stream of an index: the override of the index, else the
\* override of the stream's type, else the default
Expected(idx, key, default) ==
  LET byIdx == IdxKey(idx)
      byType == TypeKey(source[idx + 1].type)
  IN IF byIdx \in DOMAIN settings /\ key \in DOMAIN settings[byIdx] THEN settings[byIdx][key]
     ELSE IF key \in DOMAIN settings[byType] THEN settings[byType][key]
     ELSE default

(* C5: for every eligible source stream and every option key, prepare_destination
   resolves the override of the stream's index if there is one, else the override of the
   stream's type if there is one, else the value of the source stream; the overrides of
   another index play no part *)
C5_Precedence ==
  pc = "probe" =>
    /\ DOMAIN ctx_map = {i - 1 : i \in Eligible(source)}
    /\ \A idx \in DOMAIN ctx_map :
         LET ctx == ctx_map[idx]
         IN /\ ctx.type = source[idx + 1].type
            /\ ctx.codec = Expected(idx, ID_CODEC, SrcStream.codec)
            /\ ctx.codec_options = Expected(idx, ID_CODEC_OPTIONS, SrcStream.options)
            /\ ctx.bit_rate = Expected(idx, ID_BITRATE, SrcStream.bit_rate)
            /\ ctx.type = ID_VIDEO_STREAM =>
                 /\ ctx.size = Expected(idx, ID_RESOLUTION, SrcStream.size)
                 /\ ctx.fps.n = Expected(idx, ID_MAX_FPS, SrcStream.guessed_rate).n
            /\ ctx.type = ID_AUDIO_STREAM =>
                 /\ ctx.rate = Expected(idx, ID_SAMPLE_RATE, SrcStream.sample_rate)
                 /\ ctx.channels = IF Expected(idx, ID_MONO, VBool(FALSE)).n # 0
                                   THEN 1 ELSE SrcStream.channels

C5_Witness ==
  /\ pc = "probe"
  /\ DOMAIN ctx_map = {0, 1}
  /\ source[1].type = source[2].type
  /\ IdxKey(0) \in DOMAIN settings
  /\ \E key \in DOMAIN settings[IdxKey(0)] \cap DOMAIN settings[TypeKey(source[1].type)] :
       settings[IdxKey(0)][key] # settings[TypeKey(source[1].type)][key]

RECURSIVE Flatten(_)
Flatten(sents) == IF sents = <<>> THEN <<>> ELSE Head(sents) \o Flatten(Tail(sents))

(* C6: for every non-empty transcript, tokens with an empty text at any position
   included, what sentence_segmentation returns is an ordered partition of the tokens:
   no sentence is empty, and the sentences one after another are the tokens of the
   transcript, each once and in order *)
C6_Partition ==
  spc = "done" =>
    /\ \A k \in 1..Len(sentences) : sentences[k] # <<>>
    /\ Flatten(sentences) = [k \in 1..Len(transcript) |-> k - 1]

(* C7: loading the document export_json wrote gives an editor with the same settings
   map: the same keys, the stream indices as integers, and the same values *)
C7_RoundTrip ==
  jpc \in {"reloaded", "reload_raised"} => (jpc = "reloaded" /\ settings2 = settings)

C7_Witness ==
  /\ jpc = "reloaded"
  /\ ID_TIMELINE_CHANGES \in DOMAIN file
  /\ \E k \in DOMAIN settings : k.k = "int" /\ settings[k] # EmptyDict

(* C8: when edit fails with an I/O error, every container that was opened before the
   failure is closed when edit gives control back *)
C8_ClosedOnError == pc = "raised" => BothClosed

C9_State ==
  /\ pc \in {"loop", "route"} => pending = 0
  /\ pc \in {"loop", "route", "mux", "check"} => \A i \in DOMAIN dest : dest[i].flush = 0
  /\ pc = "flush" => pending = 0
  /\ (pc \in {"close_second", "done"} /\ valid_streams # {}) =>
       \A i \in DOMAIN dest : dest[i].flush = 1
  /\ pc = "close_second" => (~dstOpen /\ srcOpen)
  /\ pc = "done" => BothClosed

C9_Step ==
  /\ dest' # dest => (dstOpen /\ dstOpen')
  /\ routed' # routed => pending = 0
  /\ (\E i \in DOMAIN dest : i \in DOMAIN dest' /\ dest'[i].flush # dest[i].flush) =>
       (pending = 0 /\ pc = "flush")
  /\ (srcOpen /\ ~srcOpen') => ~dstOpen

(* C9: in a run of edit with an active stream, every packet decode_edit_encode yields is
   multiplexed before the next source packet is routed; after the loop every destination
   stream is flushed exactly once; then the destination is closed, then the source; no
   packet is multiplexed unless the destination is open *)
C9_Order == []C9_State /\ [][C9_Step]_vars

C9_Witness ==
  /\ pc = "done" /\ Cardinality(valid_streams) = 2
  /\ \A i \in DOMAIN dest : dest[i].data > 0 /\ dest[i].flush = 1

LongPause(a, b) == transcript[b + 1].start_time - transcript[a + 1].end_time > MaxPause

(* C10: no returned sentence holds two neighbouring tokens with more than 3.0 seconds
   between the end of the first and the start of the second *)
C10_NoLongPause ==
  spc = "done" =>
    \A k \in 1..Len(sentences) : \A i \in 1..(Len(sentences[k]) - 1) :
      ~LongPause(sentences[k][i], sentences[k][i + 1])

C10_Witness ==
  /\ spc = "done" /\ Len(nlp_ends) = 1 /\ Len(transcript) >= 3
  /\ Len(sentences) >= 3
  /\ \A k \in 1..2 : LongPause(k - 1, k)

====
